---- MODULE Spec2Model ----
(***************************************************************************)
(* Model of backend/server.py: the Shopify orders CRM API.                 *)
(*                                                                         *)
(* The orders collection is a sequence of documents in natural (insertion) *)
(* order.  The collection has no unique index, so find_one, replace_one    *)
(* and update_one act on the first document that matches their filter.     *)
(* A webhook ingestion awaits the store twice (find_one, then replace_one  *)
(* or insert_one), so other handlers may run between its two steps; every  *)
(* other handler performs a single store operation.                        *)
(***************************************************************************)
EXTENDS Integers, Sequences, FiniteSets, TLC

(* ------------------------------ bounds --------------------------------- *)

\* Number of webhook requests that can be in flight at the same time.
NumHandlers == 2

\* Number of uuid4 values drawn (one per webhook request that builds a doc).
MaxUuid == 3

\* Largest reading of datetime.now().
MaxClock == 2

\* The largest listed store holds ListCap + MaxOver documents.
MaxOver == 2

(* --------------------------- program constants -------------------------- *)

\* cursor.to_list(length=100)
ListCap == 100

\* The absent ?status= parameter.
NULL == "null"

\* None as the value of status_updated_at; clock readings are positive.
None == 0

\* Mutant: the list with a status the state machine does not have.
valid_statuses_WithShipped ==
  <<"new", "confirmed", "cancelled", "not_picked", "dispatched", "delivered", "rto",
    "shipped">>

\* Mutant: the list without its last status.
valid_statuses_NoRto ==
  <<"new", "confirmed", "cancelled", "not_picked", "dispatched", "delivered">>

\* valid_statuses in update_order_status
valid_statuses ==
  <<"new", "confirmed", "cancelled", "not_picked", "dispatched", "delivered", "rto">>

(* ------------------------------- inputs --------------------------------- *)

\* A JSON integer is the sequence of its decimal digits: Python reads it at
\* any size, the store holds it in 8 bytes at most.
RECURSIVE Digits(_)
Digits(n) == IF n < 10 THEN <<n>> ELSE Append(Digits(n \div 10), n % 10)

\* Values of the payload's 'id': 555 and 777.
PayloadIds == {Digits(555), Digits(777)}

\* str(n) of an integer.
RECURSIVE StrInt(_)
StrInt(digits) ==
  IF digits = <<>> THEN ""
  ELSE StrInt(SubSeq(digits, 1, Len(digits) - 1)) \o ToString(digits[Len(digits)])

\* The absent 'id': order_data.get('id') is None.
AbsentId == <<>>

\* str(order_data.get('id'))
Str(x) == IF x = AbsentId THEN "None" ELSE StrInt(x)

\* Values of the payload's 'name', as character sequences: "#DEMO1", and
\* "T#DEMO", which holds the demo prefix but does not start with it.
Names == { <<"#", "D", "E", "M", "O", "1">>, <<"T", "#", "D", "E", "M", "O">> }

\* Values of the payload's 'created_at'.
CreatedAts == {1}

\* A key the payload does not have, and the JSON null (Python's None), as
\* values of a string field.
ABSENT == "<absent>"
JNULL == "<null>"

\* The phone of the billing address in test_shopify_webhook.
TestPhone == "+91 98765 43210"

\* A payload: a JSON object with the keys the claims are about.  shape is
\* "object" when the handler can read it, "not_json" when request.json()
\* raises, "null_customer" when 'customer' is null.  payment_gateway_names
\* is absent, null or a list of names, each a character sequence.
BasePayload(id, name, created_at) ==
  [ shape                 |-> "object",
    id                    |-> id,
    name                  |-> name,
    created_at            |-> created_at,
    billing_phone         |-> TestPhone,
    phone                 |-> TestPhone,
    payment_gateway_names |-> [kind |-> "absent", names |-> <<>>] ]

\* Order 555 under a demo name and under another one, order 777.
Payloads ==
  {BasePayload(id, name, created_at) :
     id \in PayloadIds, name \in Names, created_at \in CreatedAts}
  \ {BasePayload(Digits(777), <<"#", "D", "E", "M", "O", "1">>, 1)}

\* The largest integer the store holds: 2^63 - 1, in 8 bytes.
Int64Max == <<9, 2, 2, 3, 3, 7, 2, 0, 3, 6, 8, 5, 4, 7, 7, 5, 8, 0, 7>>

\* The id of the payload of test_shopify_webhook, 12345678901234567890.
TestId == <<1, 2, 3, 4, 5, 6, 7, 8, 9, 0, 1, 2, 3, 4, 5, 6, 7, 8, 9, 0>>

\* A second top-level phone, to tell it from the billing phone.
OtherPhone == "+91 00000 00000"

PhoneValues == {ABSENT, JNULL, "", TestPhone}

TopPhoneValues == {ABSENT, JNULL, "", OtherPhone}

\* Payloads with every combination of the two phone fields.
PhonePayloads ==
  {[BasePayload(Digits(555), <<"T", "#", "D", "E", "M", "O">>, 1)
      EXCEPT !.billing_phone = billing_phone, !.phone = phone] :
     billing_phone \in PhoneValues, phone \in TopPhoneValues}

Cash_on_Delivery ==
  <<"C", "a", "s", "h", " ", "o", "n", " ", "D", "e", "l", "i", "v", "e", "r", "y">>

Razorpay == <<"R", "a", "z", "o", "r", "p", "a", "y">>

\* Values of payment_gateway_names.
GatewayLists ==
  { <<>>,
    <<Cash_on_Delivery>>,
    <<Razorpay>>,
    <<Razorpay, <<"c", "o", "d">>>>,
    <<<<"M", "a", "n", "u", "a", "l", " ", "(", "C", "O", "D", ")">>>>,
    <<<<"D", "e", "c", "o", "d", "e">>>>,
    <<<<"C", "a", "s", "h">>, <<"D", "e", "l", "i", "v", "e", "r", "y">>>>,
    <<<<"C", "O">>, <<"D">>>> }

GatewayPayloads ==
  {[BasePayload(Digits(555), <<"T", "#", "D", "E", "M", "O">>, 1)
      EXCEPT !.payment_gateway_names = [kind |-> "list", names |-> names]] :
     names \in GatewayLists}

\* Payloads by id: the test's id, the largest 8-byte integer, no id.
IdPayloads ==
  {BasePayload(id, <<"T", "#", "D", "E", "M", "O">>, 1) :
     id \in {TestId, Int64Max, AbsentId}}

\* Payloads the handler cannot read.
BadPayloads ==
  {[BasePayload(Digits(555), <<"T", "#", "D", "E", "M", "O">>, 1)
      EXCEPT !.shape = shape] : shape \in {"not_json", "null_customer"}}
  \cup
  {[BasePayload(Digits(555), <<"T", "#", "D", "E", "M", "O">>, 1)
      EXCEPT !.payment_gateway_names = [kind |-> "null", names |-> <<>>]]}

IngestPayloads ==
  PhonePayloads \cup GatewayPayloads \cup IdPayloads \cup BadPayloads

\* The payloads whose requests the store fails.
FaultPayloads ==
  {BasePayload(Digits(555), <<"T", "#", "D", "E", "M", "O">>, 1),
   BasePayload(Int64Max, <<"T", "#", "D", "E", "M", "O">>, 1)}

\* What a webhook request's calls can raise: nothing, or an exception at
\* find_one, at the write before the store applied it ("write"), at the
\* write after the store applied it and the reply was lost ("reply"), or at
\* the print after the write.
Faults == {"none", "find_one", "write", "reply", "print"}

\* The {order_id} path parameter of the status route.
PathOrderIds == {"555", "777"}

\* The statuses of the order status state machine.
Statuses ==
  {"new", "confirmed", "cancelled", "not_picked", "dispatched", "delivered", "rto"}

\* status_data.status of a status request: the statuses and two other strings.
RequestStatuses == Statuses \cup {"shipped", "invalid_status"}

\* The status requests of the concurrent specification.
ConcRequestStatuses == {"confirmed", "shipped"}

\* The optional ?status= query parameter of the list route.
StatusFilters == {NULL, "new", "confirmed", "rto", "shipped"}

\* The same with the empty parameter, ?status=
ListFilters == StatusFilters \cup {""}

(* -------------------------------- state --------------------------------- *)

VARIABLES
  orders_collection,  \* the stored documents, in natural order
  inflight,           \* the webhook requests between their two awaits
  nextUuid,           \* the next value uuid.uuid4() returns
  now,                \* the reading of datetime.now()
  resp                \* the response of the last completed request

vars == <<orders_collection, inflight, nextUuid, now, resp>>

(* --------------------------- store operations --------------------------- *)

\* Indices of the documents whose order_id equals oid.
Matching(coll, oid) == {i \in 1..Len(coll) : coll[i].order_id = oid}

Min(S) == CHOOSE x \in S : \A y \in S : x <= y

\* orders_collection.find_one({'order_id': oid}): <<>> for None, else <<doc>>.
FindOne(coll, oid) ==
  IF Matching(coll, oid) = {} THEN <<>> ELSE <<coll[Min(Matching(coll, oid))]>>

\* orders_collection.insert_one(doc)
InsertOne(coll, doc) == Append(coll, doc)

\* orders_collection.replace_one({'order_id': oid}, doc): no upsert, so a
\* filter that matches nothing writes nothing.
ReplaceOne(coll, oid, doc) ==
  IF Matching(coll, oid) = {} THEN coll
  ELSE [coll EXCEPT ![Min(Matching(coll, oid))] = doc]

\* Mutant: the $set without status_updated_at.
UpdateOne_StatusOnly(coll, oid, update_data) ==
  IF Matching(coll, oid) = {} THEN coll
  ELSE [coll EXCEPT ![Min(Matching(coll, oid))] =
          [@ EXCEPT !.local_status = update_data.local_status]]

\* Mutant: update_one with upsert=True, which inserts when nothing matches.
UpdateOne_Upsert(coll, oid, update_data) ==
  IF Matching(coll, oid) = {}
  THEN Append(coll, [order_id |-> oid,
                     local_status |-> update_data.local_status,
                     status_updated_at |-> update_data.status_updated_at])
  ELSE [coll EXCEPT ![Min(Matching(coll, oid))] =
          [@ EXCEPT !.local_status = update_data.local_status,
                    !.status_updated_at = update_data.status_updated_at]]

\* Mutant: update_many, which updates every document that matches.
UpdateOne_Many(coll, oid, update_data) ==
  [i \in 1..Len(coll) |->
     IF coll[i].order_id = oid
     THEN [coll[i] EXCEPT !.local_status = update_data.local_status,
                          !.status_updated_at = update_data.status_updated_at]
     ELSE coll[i]]

\* orders_collection.update_one({'order_id': oid}, {'$set': update_data})
UpdateOne(coll, oid, update_data) ==
  IF Matching(coll, oid) = {} THEN coll
  ELSE [coll EXCEPT ![Min(Matching(coll, oid))] =
          [@ EXCEPT !.local_status = update_data.local_status,
                    !.status_updated_at = update_data.status_updated_at]]

\* result.matched_count of replace_one / update_one
MatchedCount(coll, oid) == IF Matching(coll, oid) = {} THEN 0 ELSE 1

(* ------------------------------ the webhook ----------------------------- *)

\* The exceptions raised while the payload is read (lines 72-112):
\* request.json() on a body that is not JSON, customer.get on a null
\* customer, the iteration over a null payment_gateway_names.
ParseRaises(order_data) ==
  \/ order_data.shape # "object"
  \/ order_data.payment_gateway_names.kind = "null"

\* The truth value of a string field: absent (get returns None), null and
\* the empty string are false.
Truthy(value) == value \notin {ABSENT, JNULL, ""}

\* billing_address.get('phone') or order_data.get('phone', '')
Phone(order_data) ==
  IF Truthy(order_data.billing_phone) THEN order_data.billing_phone
  ELSE IF order_data.phone = ABSENT THEN "" ELSE order_data.phone

LowerCase ==
  <<"a", "b", "c", "d", "e", "f", "g", "h", "i", "j", "k", "l", "m",
    "n", "o", "p", "q", "r", "s", "t", "u", "v", "w", "x", "y", "z">>

UpperCase ==
  <<"A", "B", "C", "D", "E", "F", "G", "H", "I", "J", "K", "L", "M",
    "N", "O", "P", "Q", "R", "S", "T", "U", "V", "W", "X", "Y", "Z">>

\* Mutant: upper() left out, the comparison is case-sensitive.
Upper_Identity(gateway) == gateway

\* gateway.upper()
Upper(gateway) ==
  [k \in 1..Len(gateway) |->
     IF \E n \in 1..26 : LowerCase[n] = gateway[k]
     THEN UpperCase[CHOOSE n \in 1..26 : LowerCase[n] = gateway[k]]
     ELSE gateway[k]]

\* word in text
In(word, text) ==
  \E k \in 0..(Len(text) - Len(word)) : SubSeq(text, k + 1, k + Len(word)) = word

COD == <<"C", "O", "D">>

CASH_ON_DELIVERY ==
  <<"C", "A", "S", "H", " ", "O", "N", " ", "D", "E", "L", "I", "V", "E", "R", "Y">>

\* payment_method: order_data.get('payment_gateway_names', []) and the
\* any() over it.
PaymentMethod(order_data) ==
  LET payment_gateways == order_data.payment_gateway_names.names
  IN IF \E g \in 1..Len(payment_gateways) :
          \/ In(COD, Upper(payment_gateways[g]))
          \/ In(CASH_ON_DELIVERY, Upper(payment_gateways[g]))
     THEN "COD" ELSE "Prepaid"

\* order_doc as built from the payload, before the lookup.
BuildOrderDoc(order_data, uuid) ==
  [ id                |-> uuid,
    order_id          |-> Str(order_data.id),
    order_number      |-> order_data.name,
    phone             |-> Phone(order_data),
    payment_method    |-> PaymentMethod(order_data),
    created_at        |-> order_data.created_at,
    local_status      |-> "new",
    status_updated_at |-> None,
    notes             |-> "",
    webhook_data      |-> order_data ]

\* The integer fits in 8 bytes.
FitsInt64(digits) ==
  \/ Len(digits) < Len(Int64Max)
  \/ /\ Len(digits) = Len(Int64Max)
     /\ \/ digits = Int64Max
        \/ \E k \in 1..Len(digits) :
             /\ digits[k] < Int64Max[k]
             /\ \A j \in 1..(k - 1) : digits[j] = Int64Max[j]

\* The store can encode order_doc: webhook_data holds the payload's id as
\* the integer it is, and insert_one and replace_one raise OverflowError on
\* an integer beyond 8 bytes.
Encodable(order_doc) == FitsInt64(order_doc.webhook_data.id)

\* Mutant: status_updated_at is not carried over.
PreserveLocal_DropsTimestamp(order_doc, existing_order) ==
  [order_doc EXCEPT !.local_status = existing_order.local_status,
                    !.notes        = existing_order.notes]

\* The fields carried over from existing_order when the lookup found one.
PreserveLocal(order_doc, existing_order) ==
  [order_doc EXCEPT !.local_status      = existing_order.local_status,
                    !.status_updated_at = existing_order.status_updated_at,
                    !.notes             = existing_order.notes]

\* update_data of update_order_status
UpdateData(status, clock) ==
  [local_status |-> status, status_updated_at |-> clock]

\* Mutant: the check lets "shipped" through.
IsValidStatus_AcceptsShipped(status) ==
  \/ status = "shipped"
  \/ \E i \in 1..Len(valid_statuses) : valid_statuses[i] = status

\* status_data.status in valid_statuses
IsValidStatus(status) == \E i \in 1..Len(valid_statuses) : valid_statuses[i] = status

(* --------------------------- the demo convention ------------------------ *)

\* Mutant: the pattern without its anchor matches anywhere in the string.
RegexDemo_Unanchored(order_number) ==
  \E k \in 1..Len(order_number) :
    /\ k + 4 <= Len(order_number)
    /\ SubSeq(order_number, k, k + 4) = <<"#", "D", "E", "M", "O">>

\* {'$regex': '^#DEMO'}: the pattern matches at the start of the string.
RegexDemo(order_number) ==
  /\ Len(order_number) >= 5
  /\ SubSeq(order_number, 1, 5) = <<"#", "D", "E", "M", "O">>

\* orders_collection.delete_many({'order_number': {'$regex': '^#DEMO'}})
DeleteMany(coll) == SelectSeq(coll, LAMBDA d : ~RegexDemo(d.order_number))

\* result.deleted_count
DeletedCount(coll) == Len(coll) - Len(DeleteMany(coll))

(* ------------------------------- the queries ---------------------------- *)

\* Mutant: the query without the exclusion of the demo orders.
QueryMatches_NoDemoFilter(doc, status) ==
  (status # NULL /\ status # "") => doc.local_status = status

\* The find() query of get_orders: the status filter when `if status` holds
\* (the parameter is given and not empty), and the exclusion of the demo
\* orders.
QueryMatches(doc, status) ==
  /\ (status # NULL /\ status # "") => doc.local_status = status
  /\ ~RegexDemo(doc.order_number)

Find(coll, status) == SelectSeq(coll, LAMBDA d : QueryMatches(d, status))

\* The orderings of the documents of docs at the indices S.
RECURSIVE Orderings(_, _)
Orderings(docs, S) ==
  IF S = {} THEN {<<>>}
  ELSE UNION {{<<docs[i]>> \o r : r \in Orderings(docs, S \ {i})} : i \in S}

\* The largest created_at of docs, 0 when there is none; created_at values
\* are positive.
MaxCreatedAt(docs) ==
  LET keys == {docs[i].created_at : i \in 1..Len(docs)}
  IN IF keys = {} THEN 0 ELSE CHOOSE m \in keys : \A k \in keys : k <= m

\* The orderings by descending created_at of the documents whose created_at
\* is in lo..hi: those of the upper half of the range, then those of the
\* lower half.
RECURSIVE SortDescRange(_, _, _)
SortDescRange(docs, lo, hi) ==
  IF lo > hi THEN {<<>>}
  ELSE IF lo = hi
       THEN Orderings(docs, {i \in 1..Len(docs) : docs[i].created_at = lo})
       ELSE LET mid == (lo + hi) \div 2
            IN {a \o b : a \in SortDescRange(docs, mid + 1, hi),
                         b \in SortDescRange(docs, lo, mid)}

\* .sort('created_at', -1): the orderings of docs by descending created_at;
\* documents with equal keys come in any order.
SortDesc(docs) == SortDescRange(docs, 1, MaxCreatedAt(docs))

\* Mutant: to_list(length=None), which returns every document.
ToList_NoCap(docs, length) == docs

\* cursor.to_list(length=ListCap)
ToList(docs, length) ==
  SubSeq(docs, 1, IF Len(docs) < length THEN Len(docs) ELSE length)

\* The values get_orders can return for the collection.
GetOrdersResults(coll, status) ==
  {ToList(r, ListCap) : r \in SortDesc(Find(coll, status))}

\* The $match stage of the stats pipeline.
StatsMatch(coll) == SelectSeq(coll, LAMBDA d : ~RegexDemo(d.order_number))

\* Mutant: one key per valid status, with a zero for those that do not occur.
StatsDict_ZeroFill(coll) ==
  LET docs == StatsMatch(coll)
  IN [s \in {valid_statuses[i] : i \in 1..Len(valid_statuses)} |->
        Cardinality({i \in 1..Len(docs) : docs[i].local_status = s})]

\* The $group stage and stats_dict: one key per local_status that occurs.
StatsDict(coll) ==
  LET docs == StatsMatch(coll)
      keys == {docs[i].local_status : i \in 1..Len(docs)}
  IN [s \in keys |-> Cardinality({i \in 1..Len(docs) : docs[i].local_status = s})]

(* ------------------------------- handlers ------------------------------- *)

Init ==
  /\ orders_collection = <<>>
  /\ inflight = {}
  /\ nextUuid = 1
  /\ now = 1
  /\ resp = [op |-> "none", code |-> 0]

\* Mutant: the write carries over the fields of the record as it is at the
\* write, not as the lookup read it.
WebhookStore_Reread(coll, order_doc, existing_order) ==
  IF existing_order # <<>>
  THEN IF Matching(coll, order_doc.order_id) = {} THEN coll
       ELSE ReplaceOne(coll, order_doc.order_id,
                       PreserveLocal(order_doc, FindOne(coll, order_doc.order_id)[1]))
  ELSE InsertOne(coll, order_doc)

\* The store after the write of a request that built order_doc and looked
\* up existing_order.
WebhookStore(coll, order_doc, existing_order) ==
  IF existing_order # <<>>
  THEN ReplaceOne(coll, order_doc.order_id, PreserveLocal(order_doc, existing_order[1]))
  ELSE InsertOne(coll, order_doc)

\* History of the write, kept with the response: the document the write
\* replaces is the one the lookup read (same id, so only update_one touched
\* it since) and its local_status is no longer the one the lookup read.
StaleWrite(coll, order_doc, existing_order) ==
  LET current == FindOne(coll, order_doc.order_id)
  IN /\ existing_order # <<>>
     /\ current # <<>>
     /\ current[1].id = existing_order[1].id
     /\ current[1].local_status # existing_order[1].local_status

\* The response of a webhook request that reached its return.
WebhookResponse(coll, order_doc, existing_order) ==
  [op |-> "webhook", code |-> 200, order_id |-> order_doc.order_id,
   stale |-> StaleWrite(coll, order_doc, existing_order)]

\* The 500 of a webhook request, with the call that raised.
WebhookError(stage) == [op |-> "webhook", code |-> 500, stage |-> stage]

\* The write raises: the store fails, or it cannot encode order_doc.
WriteRaises(order_doc, fault) ==
  fault \in {"write", "reply"} \/ ~Encodable(order_doc)

\* Mutant: the write is applied before the exception is raised.
StoreAfterWrite_Applied(coll, order_doc, existing_order, fault) ==
  WebhookStore(coll, order_doc, existing_order)

\* The store after the write.  A document that cannot be encoded is never
\* sent, and a write that fails in the store is not applied; a write whose
\* reply is lost is applied, whole.
StoreAfterWrite(coll, order_doc, existing_order, fault) ==
  IF ~Encodable(order_doc) \/ fault = "write" THEN coll
  ELSE WebhookStore(coll, order_doc, existing_order)

\* The response after the write, the print and the return.
ResponseAfterWrite(coll, order_doc, existing_order, fault) ==
  IF WriteRaises(order_doc, fault) THEN WebhookError("write")
  ELSE IF fault = "print" THEN WebhookError("print")
  ELSE WebhookResponse(coll, order_doc, existing_order)

\* shopify_webhook up to and including `await find_one`.
WebhookLookup(order_data, fault) ==
  /\ Cardinality(inflight) < NumHandlers
  /\ fault \in {"none", "find_one"}
  /\ IF ParseRaises(order_data)
     THEN /\ fault = "none"
          /\ resp' = WebhookError("parse")
          /\ UNCHANGED <<inflight, nextUuid>>
     ELSE /\ nextUuid <= MaxUuid
          /\ nextUuid' = nextUuid + 1
          /\ IF fault = "find_one"
             THEN /\ resp' = WebhookError("find_one")
                  /\ UNCHANGED inflight
             ELSE LET order_doc == BuildOrderDoc(order_data, nextUuid)
                      existing_order == FindOne(orders_collection, order_doc.order_id)
                  IN /\ inflight' = inflight \cup
                          {[order_doc |-> order_doc, existing_order |-> existing_order]}
                     /\ UNCHANGED resp
  /\ UNCHANGED <<orders_collection, now>>

\* shopify_webhook from the `if existing_order` to the return.
WebhookWrite(req, fault) ==
  /\ req \in inflight
  /\ fault \in {"none", "write", "reply", "print"}
  /\ orders_collection' =
       StoreAfterWrite(orders_collection, req.order_doc, req.existing_order, fault)
  /\ resp' = ResponseAfterWrite(orders_collection, req.order_doc, req.existing_order, fault)
  /\ inflight' = inflight \ {req}
  /\ UNCHANGED <<nextUuid, now>>

\* shopify_webhook when no other handler runs between its lookup and its write.
ShopifyWebhook(order_data, fault) ==
  /\ inflight = {}
  /\ IF ParseRaises(order_data)
     THEN /\ fault = "none"
          /\ resp' = WebhookError("parse")
          /\ UNCHANGED <<orders_collection, nextUuid>>
     ELSE /\ nextUuid <= MaxUuid
          /\ nextUuid' = nextUuid + 1
          /\ IF fault = "find_one"
             THEN /\ resp' = WebhookError("find_one")
                  /\ UNCHANGED orders_collection
             ELSE LET order_doc == BuildOrderDoc(order_data, nextUuid)
                      existing_order == FindOne(orders_collection, order_doc.order_id)
                  IN /\ orders_collection' =
                          StoreAfterWrite(orders_collection, order_doc, existing_order, fault)
                     /\ resp' = ResponseAfterWrite(orders_collection, order_doc,
                                                   existing_order, fault)
  /\ UNCHANGED <<inflight, now>>

\* The response of update_order_status, kept with the request it answers.
UpdateResponse(code, order_id, status) ==
  [op |-> "update_status", code |-> code, order_id |-> order_id, status |-> status]

\* update_order_status
UpdateOrderStatus(order_id, status) ==
  /\ IF ~IsValidStatus(status)
     THEN /\ resp' = UpdateResponse(400, order_id, status)
          /\ UNCHANGED orders_collection
     ELSE /\ orders_collection' =
               UpdateOne(orders_collection, order_id, UpdateData(status, now))
          /\ resp' = UpdateResponse(IF MatchedCount(orders_collection, order_id) = 0
                                    THEN 404 ELSE 200, order_id, status)
  /\ UNCHANGED <<inflight, nextUuid, now>>

\* get_orders
GetOrders(status) ==
  /\ \E orders \in GetOrdersResults(orders_collection, status) :
       resp' = [op |-> "get_orders", code |-> 200, orders |-> orders]
  /\ UNCHANGED <<orders_collection, inflight, nextUuid, now>>

\* get_order_stats
GetOrderStats ==
  /\ resp' = [op |-> "get_order_stats", code |-> 200,
              stats |-> StatsDict(orders_collection)]
  /\ UNCHANGED <<orders_collection, inflight, nextUuid, now>>

\* clear_demo_orders
ClearDemoOrders ==
  /\ orders_collection' = DeleteMany(orders_collection)
  /\ resp' = [op |-> "clear_demo", code |-> 200,
              deleted_count |-> DeletedCount(orders_collection)]
  /\ UNCHANGED <<inflight, nextUuid, now>>

\* The clock advances between requests.
Tick ==
  /\ now < MaxClock
  /\ now' = now + 1
  /\ UNCHANGED <<orders_collection, inflight, nextUuid, resp>>

(* ---------------------------- specifications ---------------------------- *)

\* Concurrent requests: a webhook's lookup and write are separate steps.
Next ==
  \/ \E order_data \in Payloads : WebhookLookup(order_data, "none")
  \/ \E req \in inflight : WebhookWrite(req, "none")
  \/ \E order_id \in PathOrderIds, status \in ConcRequestStatuses :
       UpdateOrderStatus(order_id, status)
  \/ ClearDemoOrders
  \/ Tick

Spec == Init /\ [][Next]_vars

\* Requests served one after the other.
NextSeq ==
  \/ \E order_data \in Payloads : ShopifyWebhook(order_data, "none")
  \/ \E order_id \in PathOrderIds, status \in RequestStatuses :
       UpdateOrderStatus(order_id, status)
  \/ \E status \in StatusFilters : GetOrders(status)
  \/ GetOrderStats
  \/ ClearDemoOrders
  \/ Tick

SpecSeq == Init /\ [][NextSeq]_vars

\* Webhook requests with every payload, and with a store that can fail.
NextIngest ==
  \/ \E order_data \in IngestPayloads : ShopifyWebhook(order_data, "none")
  \/ \E order_data \in FaultPayloads, fault \in Faults \ {"none"} :
       ShopifyWebhook(order_data, fault)
  \/ UpdateOrderStatus("555", "confirmed")

SpecIngest == Init /\ [][NextIngest]_vars

(* ------------------------- listing large stores ------------------------- *)

\* The sizes of the listed stores: a few small ones and those around ListCap.
ListSizes == 0..3 \cup (ListCap - 1)..(ListCap + MaxOver)

\* The i-th order of a store of n orders.  order gives its created_at:
\* ascending or descending with the insertion order, shuffled, or tied in
\* pairs.  mix gives its status and name: plain is new and not demo; sparse
\* has one demo order and one confirmed order; mixed has every fifth order
\* demo and every third confirmed.
ListDoc(i, n, order, mix) ==
  LET created_at == CASE order = "asc"      -> i
                      [] order = "desc"     -> n + 1 - i
                      [] order = "shuffled" -> IF 2 * i <= n THEN 2 * i
                                               ELSE 2 * (n - i) + 1
                      [] OTHER              -> ((i + 1) \div 2)
      demo == \/ mix = "sparse" /\ i = 1
              \/ mix = "mixed" /\ i % 5 = 0
      confirmed == \/ mix = "sparse" /\ i = 2
                   \/ mix = "mixed" /\ i % 3 = 0
      inserted == BuildOrderDoc(
                    BasePayload(Digits(i),
                                IF demo THEN <<"#", "D", "E", "M", "O", "1">>
                                ELSE <<"T", "#", "D", "E", "M", "O">>,
                                created_at), i)
  IN IF confirmed
     THEN [inserted EXCEPT !.local_status = "confirmed", !.status_updated_at = 1]
     ELSE inserted

ListStore(n, order, mix) == [i \in 1..n |-> ListDoc(i, n, order, mix)]

\* The stores the listing is checked on.  Stores with tied created_at are
\* small: every order of the ties is a result.
ListStores ==
  {ListStore(n, order, mix) :
     n \in ListSizes, order \in {"asc", "desc", "shuffled"},
     mix \in {"plain", "sparse", "mixed"}}
  \cup {ListStore(n, "tied", mix) : n \in 0..3, mix \in {"plain", "sparse", "mixed"}}

\* A store of ingested orders, some with their status updated.
InitList ==
  /\ orders_collection \in ListStores
  /\ inflight = {}
  /\ nextUuid = 1
  /\ now = 1
  /\ resp = [op |-> "none", code |-> 0]

NextList == \E status \in ListFilters : GetOrders(status)

SpecList == InitList /\ [][NextList]_vars

(* -------------------------- comparing two stores ------------------------ *)

\* The number of documents a step wrote: 1 for an append, the number of
\* positions that differ when the length is unchanged.
DocsWritten(before, after) ==
  IF Len(after) = Len(before)
  THEN Cardinality({i \in 1..Len(before) : after[i] # before[i]})
  ELSE IF Len(after) = Len(before) + 1 /\ SubSeq(after, 1, Len(before)) = before
       THEN 1
       ELSE Len(before) + Len(after)

\* order_number starts with "#DEMO", character by character.
StartsWithDemo(order_number) ==
  /\ Len(order_number) >= 5
  /\ order_number[1] = "#"
  /\ order_number[2] = "D"
  /\ order_number[3] = "E"
  /\ order_number[4] = "M"
  /\ order_number[5] = "O"

HasRecord(coll, oid) == \E i \in 1..Len(coll) : coll[i].order_id = oid

\* The stored record of oid when there is exactly one.
RecordOf(coll, oid) == coll[CHOOSE i \in 1..Len(coll) : coll[i].order_id = oid]

(* --------------------------------- claims ------------------------------- *)

\* A step is named by the action it takes; the conjuncts about resp' that
\* precede the action in a formula follow from it.

\* C1: when no other store operation falls between an ingestion's lookup and
\* its write, re-ingesting an order id that has a stored record leaves the
\* record's local_status, status_updated_at and notes as they were.
C1_ReingestPreservesLocal ==
  [][\A order_data \in Payloads :
       (/\ resp'.op = "webhook"
        /\ HasRecord(orders_collection, Str(order_data.id))
        /\ ShopifyWebhook(order_data, "none"))
       => /\ HasRecord(orders_collection', Str(order_data.id))
          /\ LET before == RecordOf(orders_collection, Str(order_data.id))
                 after == RecordOf(orders_collection', Str(order_data.id))
             IN /\ after.local_status = before.local_status
                /\ after.status_updated_at = before.status_updated_at
                /\ after.notes = before.notes]_vars

\* The last completed request is an ingestion of an order whose record is
\* confirmed: the status was set before that ingestion and survived it.
C1_Witness ==
  /\ resp.op = "webhook"
  /\ HasRecord(orders_collection, resp.order_id)
  /\ RecordOf(orders_collection, resp.order_id).local_status = "confirmed"
  /\ RecordOf(orders_collection, resp.order_id).status_updated_at # None

\* C2: the id of an order's record is the one assigned at the first
\* ingestion: no step changes the id of the record of an order id.
C2_InternalIdImmutable ==
  [][\A oid \in PathOrderIds :
       (HasRecord(orders_collection, oid) /\ HasRecord(orders_collection', oid))
       => RecordOf(orders_collection', oid).id = RecordOf(orders_collection, oid).id]_vars

\* C3: the store holds at most one record per order id.
C3_OneRecordPerOrderId ==
  \A i, j \in 1..Len(orders_collection) :
    orders_collection[i].order_id = orders_collection[j].order_id => i = j

\* C4: a webhook request that returns success has written exactly one
\* document.
C4_SuccessWroteOnce ==
  [][\A req \in inflight :
       (resp'.op = "webhook" /\ resp'.code = 200 /\ WebhookWrite(req, "none"))
       => DocsWritten(orders_collection, orders_collection') = 1]_vars

\* C5: the write of an ingestion that found a record stores the local_status
\* its lookup read, whatever the record's local_status is at the write.
C5_WriteStoresStatusRead ==
  [][\A req \in inflight :
       (/\ WebhookWrite(req, "none")
        /\ req.existing_order # <<>>
        /\ HasRecord(orders_collection, req.order_doc.order_id))
       => \E i \in 1..Len(orders_collection') :
            /\ orders_collection'[i].id = req.order_doc.id
            /\ orders_collection'[i].local_status = req.existing_order[1].local_status]_vars

\* An ingestion has overwritten a status set after its lookup, while another
\* ingestion of the same order id that found the record is still in flight.
C5_Witness ==
  /\ resp.op = "webhook"
  /\ resp.stale
  /\ \E req \in inflight :
       /\ req.order_doc.order_id = resp.order_id
       /\ req.existing_order # <<>>

\* C6: a status request whose status is not one of the seven statuses gets
\* a 400 and leaves the store unchanged.
C6_InvalidStatusRejected ==
  [][\A order_id \in PathOrderIds, status \in RequestStatuses \ Statuses :
       (/\ resp'.op = "update_status"
        /\ resp'.order_id = order_id
        /\ resp'.status = status
        /\ UpdateOrderStatus(order_id, status))
       => /\ resp'.code = 400
          /\ orders_collection' = orders_collection]_vars

\* A 400 was returned while the store holds a record with a changed status.
C6_Witness ==
  /\ resp.op = "update_status"
  /\ resp.code = 400
  /\ \E i \in 1..Len(orders_collection) :
       orders_collection[i].status_updated_at # None

\* C7: a status request with a valid status for an order id that has no
\* record gets a 404 and leaves the store unchanged.
C7_UnknownOrderNotFound ==
  [][\A order_id \in PathOrderIds, status \in Statuses :
       (/\ resp'.op = "update_status"
        /\ resp'.order_id = order_id
        /\ resp'.status = status
        /\ ~HasRecord(orders_collection, order_id)
        /\ UpdateOrderStatus(order_id, status))
       => /\ resp'.code = 404
          /\ orders_collection' = orders_collection]_vars

\* A 404 was returned while the store holds a record of another order id.
C7_Witness ==
  /\ resp.op = "update_status"
  /\ resp.code = 404
  /\ Len(orders_collection) = 1
  /\ orders_collection[1].local_status = "new"

\* C8: a status request with any of the seven statuses on an existing order
\* succeeds, whatever the order's status, and leaves the order with it.
C8_AnyStatusToAnyStatus ==
  [][\A order_id \in PathOrderIds, status \in Statuses :
       (/\ resp'.op = "update_status"
        /\ resp'.order_id = order_id
        /\ resp'.status = status
        /\ HasRecord(orders_collection, order_id)
        /\ UpdateOrderStatus(order_id, status))
       => /\ resp'.code = 200
          /\ RecordOf(orders_collection', order_id).local_status = status]_vars

\* An order was set back to new by a status request: one order is rto, the
\* other is new with a status timestamp.
C8_Witness ==
  /\ resp.op = "update_status"
  /\ resp.code = 200
  /\ \E i, j \in 1..Len(orders_collection) :
       /\ orders_collection[i].local_status = "new"
       /\ orders_collection[i].status_updated_at # None
       /\ orders_collection[j].local_status = "rto"

\* C9: a successful status request changes local_status and
\* status_updated_at of one record of the given order id and nothing else.
C9_UpdateFrame ==
  [][\A order_id \in PathOrderIds, status \in Statuses :
       (/\ resp'.op = "update_status"
        /\ resp'.order_id = order_id
        /\ resp'.status = status
        /\ resp'.code = 200
        /\ UpdateOrderStatus(order_id, status))
       => /\ Len(orders_collection') = Len(orders_collection)
          /\ \E i \in 1..Len(orders_collection) :
               /\ orders_collection[i].order_id = order_id
               /\ orders_collection'[i] =
                    [orders_collection[i] EXCEPT
                       !.local_status = orders_collection'[i].local_status,
                       !.status_updated_at = orders_collection'[i].status_updated_at]
               /\ \A k \in 1..Len(orders_collection) :
                    k # i => orders_collection'[k] = orders_collection[k]]_vars

\* A status request succeeded on an order id that has two records, and the
\* two records now differ in status.
C9_Witness ==
  /\ resp.op = "update_status"
  /\ resp.code = 200
  /\ \E i, j \in 1..Len(orders_collection) :
       /\ i # j
       /\ orders_collection[i].order_id = orders_collection[j].order_id
       /\ orders_collection[i].local_status # orders_collection[j].local_status

\* C10: no record whose order_number starts with "#DEMO" is returned by
\* get_orders, with or without a status filter, or counted in the stats.
C10_DemoExcluded ==
  /\ \A status \in StatusFilters :
       \A orders \in GetOrdersResults(orders_collection, status) :
         \A i \in 1..Len(orders) : ~StartsWithDemo(orders[i].order_number)
  /\ \A s \in DOMAIN StatsDict(orders_collection) :
       StatsDict(orders_collection)[s] <=
         Cardinality({i \in 1..Len(orders_collection) :
                        /\ orders_collection[i].local_status = s
                        /\ ~StartsWithDemo(orders_collection[i].order_number)})
  /\ resp.op = "get_orders" =>
       \A i \in 1..Len(resp.orders) : ~StartsWithDemo(resp.orders[i].order_number)
  /\ resp.op = "get_order_stats" =>
       \A s \in DOMAIN resp.stats :
         resp.stats[s] <=
           Cardinality({i \in 1..Len(orders_collection) :
                          /\ orders_collection[i].local_status = s
                          /\ ~StartsWithDemo(orders_collection[i].order_number)})

\* The store holds a demo record and another record with the same status,
\* and get_orders returned the other record only.
C10_Witness ==
  /\ resp.op = "get_orders"
  /\ Len(resp.orders) = 1
  /\ Len(orders_collection) = 2
  /\ \E i, j \in 1..2 :
       /\ StartsWithDemo(orders_collection[i].order_number)
       /\ ~StartsWithDemo(orders_collection[j].order_number)
       /\ orders_collection[i].local_status = orders_collection[j].local_status

\* The number of records of coll whose order_number starts with "#DEMO".
DemoCount(coll) ==
  Cardinality({i \in 1..Len(coll) : StartsWithDemo(coll[i].order_number)})

\* C11: clear_demo_orders deletes the records whose order_number starts with
\* "#DEMO" and no other, reports how many there were, leaves the other
\* records as they were and in their order; a clear that follows a clear
\* reports 0.
C11_ClearDeletesDemoOnly ==
  [][(resp'.op = "clear_demo" /\ ClearDemoOrders)
     => /\ resp'.code = 200
        /\ resp'.deleted_count = DemoCount(orders_collection)
        /\ DemoCount(orders_collection') = 0
        /\ Len(orders_collection') = Len(orders_collection) - DemoCount(orders_collection)
        /\ \A i \in 1..Len(orders_collection) :
             ~StartsWithDemo(orders_collection[i].order_number)
             => orders_collection'[i - DemoCount(SubSeq(orders_collection, 1, i))]
                  = orders_collection[i]
        /\ resp.op = "clear_demo" => resp'.deleted_count = 0]_vars

\* A clear deleted a demo record and left a record that holds the demo
\* prefix without starting with it.
C11_Witness ==
  /\ resp.op = "clear_demo"
  /\ resp.deleted_count >= 1
  /\ Len(orders_collection) >= 1
  /\ orders_collection[1].order_number = <<"T", "#", "D", "E", "M", "O">>

\* The records of coll that are not demo records and have status s.
NonDemoWithStatus(coll, s) ==
  {i \in 1..Len(coll) :
     coll[i].local_status = s /\ ~StartsWithDemo(coll[i].order_number)}

RECURSIVE SumOver(_, _)
SumOver(f, S) ==
  IF S = {} THEN 0
  ELSE LET x == CHOOSE y \in S : TRUE IN f[x] + SumOver(f, S \ {x})

\* stats is the mapping the claim describes for coll.
IsStatsOf(stats, coll) ==
  /\ DOMAIN stats = {s \in Statuses : NonDemoWithStatus(coll, s) # {}}
  /\ \A s \in DOMAIN stats : stats[s] = Cardinality(NonDemoWithStatus(coll, s))
  /\ SumOver(stats, DOMAIN stats) =
       Cardinality({i \in 1..Len(coll) : ~StartsWithDemo(coll[i].order_number)})

\* C13: the stats mapping has, for each status, the number of non-demo
\* records with that status when it is at least 1 and no key when it is 0,
\* and its values sum to the number of non-demo records.
C13_StatsCounts ==
  /\ IsStatsOf(StatsDict(orders_collection), orders_collection)
  /\ resp.op = "get_order_stats" => IsStatsOf(resp.stats, orders_collection)

\* get_order_stats answered for a store with a demo record and a non-demo
\* record: one key, with count 1.
C13_Witness ==
  /\ resp.op = "get_order_stats"
  /\ Len(orders_collection) = 2
  /\ DemoCount(orders_collection) = 1
  /\ DOMAIN resp.stats = {"dispatched"}
  /\ resp.stats["dispatched"] = 1

\* C18: the local_status of every stored record is one of the seven
\* statuses.
C18_StatusInEnum ==
  \A i \in 1..Len(orders_collection) : orders_collection[i].local_status \in Statuses

\* A rejected status request and a re-ingestion have both run on a store
\* that holds a confirmed record.
C18_Witness ==
  /\ resp.op = "update_status"
  /\ resp.code = 400
  /\ \E i \in 1..Len(orders_collection) :
       /\ orders_collection[i].local_status = "confirmed"
       /\ orders_collection[i].id > 1
       /\ orders_collection[i].order_id = resp.order_id

\* C19: a stored record whose status_updated_at is None has local_status
\* new.
C19_NullTimestampIsNew ==
  \A i \in 1..Len(orders_collection) :
    orders_collection[i].status_updated_at = None
    => orders_collection[i].local_status = "new"

\* An ingestion wrote back the pair it read, new and None, over a status
\* set after its lookup, while the other record of the order id keeps a
\* status with its timestamp.
C19_Witness ==
  /\ resp.op = "webhook"
  /\ resp.stale
  /\ \E i, j \in 1..Len(orders_collection) :
       /\ orders_collection[i].order_id = resp.order_id
       /\ orders_collection[i].status_updated_at = None
       /\ orders_collection[i].local_status = "new"
       /\ orders_collection[j].status_updated_at # None
       /\ orders_collection[j].local_status = "confirmed"

\* The records of coll that get_orders is to return from for the filter:
\* not demo, and of the given status when the filter is given.
ListMatching(coll, status) ==
  {i \in 1..Len(coll) :
     /\ ~StartsWithDemo(coll[i].order_number)
     /\ status \in {NULL, ""} \/ coll[i].local_status = status}

\* orders is a listing of coll for the filter as the claim describes it.
IsListingOf(orders, coll, status) ==
  LET M == ListMatching(coll, status)
      returned == {i \in M : \E k \in 1..Len(orders) : orders[k] = coll[i]}
  IN /\ Len(orders) = IF Cardinality(M) < 100 THEN Cardinality(M) ELSE 100
     /\ Cardinality(returned) = Len(orders)
     /\ \A k \in 1..Len(orders) : \E i \in M : orders[k] = coll[i]
     /\ \A k \in 1..(Len(orders) - 1) : orders[k].created_at >= orders[k + 1].created_at
     /\ \A i \in M \ returned :
          \A k \in 1..Len(orders) : coll[i].created_at <= orders[k].created_at

\* C12: get_orders returns min(100, n) of the n non-demo records that match
\* the filter, each of them matching, in descending created_at order, and
\* no record it leaves out is newer than one it returns.
C12_ListCapAndOrder ==
  [][\A status \in ListFilters :
       (resp'.op = "get_orders" /\ GetOrders(status))
       => IsListingOf(resp'.orders, orders_collection, status)]_vars

\* get_orders returned 100 records, the newest being the last inserted, from
\* a store with more than 100 matching records and a demo record.
C12_Witness ==
  /\ resp.op = "get_orders"
  /\ Len(resp.orders) = 100
  /\ Cardinality(ListMatching(orders_collection, NULL)) > 100
  /\ DemoCount(orders_collection) = 1
  /\ resp.orders[1] = orders_collection[Len(orders_collection)]

(* ------------------------------- ingestion ------------------------------ *)

\* The record a successful webhook request wrote: the one with the uuid the
\* request drew.
WrittenBy(uuid, coll) ==
  {k \in 1..Len(coll) : coll[k].id = uuid}

\* Two characters that are the same letter, whatever their case.
SameLetter(a, b) ==
  a = b \/ \E n \in 1..26 : {a, b} = {LowerCase[n], UpperCase[n]}

\* text contains word when both are compared case-insensitively.
ContainsIgnoringCase(text, word) ==
  \E k \in 0..(Len(text) - Len(word)) :
    \A j \in 1..Len(word) : SameLetter(text[k + j], word[j])

\* A name of the payload's gateway list names cash on delivery.
NamesCod(order_data) ==
  /\ order_data.payment_gateway_names.kind = "list"
  /\ \E g \in 1..Len(order_data.payment_gateway_names.names) :
       \/ ContainsIgnoringCase(order_data.payment_gateway_names.names[g], COD)
       \/ ContainsIgnoringCase(order_data.payment_gateway_names.names[g],
                               CASH_ON_DELIVERY)

\* C16: the payment_method of the record a successful webhook request wrote
\* is "COD" exactly when some name of the payload's gateway list contains
\* "COD" or "CASH ON DELIVERY" compared case-insensitively, and "Prepaid"
\* otherwise, an empty or absent list included.
C16_PaymentMethodClassified ==
  [][\A order_data \in IngestPayloads :
       (resp'.op = "webhook" /\ resp'.code = 200 /\ ShopifyWebhook(order_data, "none"))
       => /\ WrittenBy(nextUuid, orders_collection') # {}
          /\ \A k \in WrittenBy(nextUuid, orders_collection') :
               orders_collection'[k].payment_method =
                 IF NamesCod(order_data) THEN "COD" ELSE "Prepaid"]_vars

\* A request with the gateway "Cash on Delivery" stored a record.
C16_Witness ==
  \E k \in 1..Len(orders_collection) :
    /\ orders_collection[k].webhook_data.payment_gateway_names.names = <<Cash_on_Delivery>>
    /\ orders_collection[k].payment_method = "COD"

\* The phone the resolution order names: the billing phone when present and
\* non-empty, else the top-level phone when present, else the empty string.
ResolvedPhone(order_data) ==
  IF order_data.billing_phone \notin {ABSENT, JNULL, ""} THEN order_data.billing_phone
  ELSE IF order_data.phone \notin {ABSENT, JNULL} THEN order_data.phone
  ELSE ""

\* C17: the phone of the record a successful webhook request wrote is the
\* billing phone when that is present and non-empty, else the top-level
\* phone when that is present, else the empty string, and never null.
C17_PhoneResolved ==
  [][\A order_data \in IngestPayloads :
       (resp'.op = "webhook" /\ resp'.code = 200 /\ ShopifyWebhook(order_data, "none"))
       => \A k \in WrittenBy(nextUuid, orders_collection') :
            /\ orders_collection'[k].phone = ResolvedPhone(order_data)
            /\ orders_collection'[k].phone # JNULL]_vars

\* The payloads of the requests of SpecIngest.
RequestPayloads == IngestPayloads \cup FaultPayloads

\* The positions of the records a step wrote.
Written(before, after) ==
  {k \in 1..Len(after) : k > Len(before) \/ after[k] # before[k]}

\* The record holds everything the request built from the payload.
WholeRecord(doc, order_data, uuid) ==
  /\ doc.id = uuid
  /\ doc.order_id = Str(order_data.id)
  /\ doc.order_number = order_data.name
  /\ doc.created_at = order_data.created_at
  /\ doc.webhook_data = order_data
  /\ doc.local_status \in Statuses

\* C14 as stated: a webhook request that fails while it parses the payload
\* or persists the record returns 500 and leaves the store as it was.
C14_FailureLeavesStore ==
  [][\A order_data \in RequestPayloads, fault \in Faults :
       (/\ resp'.op = "webhook"
        /\ resp'.code = 500
        /\ resp'.stage \in {"parse", "find_one", "write"}
        /\ ShopifyWebhook(order_data, fault))
       => orders_collection' = orders_collection]_vars

\* C14, amended: a webhook request that returns 500 has written nothing or
\* one whole record, never part of one; it has written nothing when the
\* failure comes before the write is sent, that is while the payload is
\* parsed, at the lookup, or when the record cannot be encoded.
C14_FailureWritesNothingOrWhole ==
  [][\A order_data \in RequestPayloads, fault \in Faults :
       (resp'.op = "webhook" /\ resp'.code = 500 /\ ShopifyWebhook(order_data, fault))
       => /\ Len(orders_collection') \in
               {Len(orders_collection), Len(orders_collection) + 1}
          /\ Cardinality(Written(orders_collection, orders_collection')) <= 1
          /\ \A k \in Written(orders_collection, orders_collection') :
               WholeRecord(orders_collection'[k], order_data, nextUuid)
          /\ (\/ ParseRaises(order_data)
              \/ fault = "find_one"
              \/ ~FitsInt64(order_data.id))
             => orders_collection' = orders_collection]_vars

\* The last request failed at the write, and the record it built is in the
\* store, next to an older one.
C14_Witness ==
  /\ resp.op = "webhook"
  /\ resp.code = 500
  /\ resp.stage = "write"
  /\ Len(orders_collection) > 1
  /\ WrittenBy(nextUuid - 1, orders_collection) # {}

\* C15: a webhook request whose payload can be read and whose order_id has
\* no record appends exactly one record with local_status "new",
\* status_updated_at null and notes "", and returns success with the
\* payload's id as a string.
C15_NewOrderInserted ==
  [][\A order_data \in IngestPayloads :
       (/\ ~ParseRaises(order_data)
        /\ Matching(orders_collection, Str(order_data.id)) = {}
        /\ ShopifyWebhook(order_data, "none"))
       => /\ resp'.code = 200
          /\ resp'.order_id = Str(order_data.id)
          /\ Len(orders_collection') = Len(orders_collection) + 1
          /\ SubSeq(orders_collection', 1, Len(orders_collection)) = orders_collection
          /\ orders_collection'[Len(orders_collection')].local_status = "new"
          /\ orders_collection'[Len(orders_collection')].status_updated_at = None
          /\ orders_collection'[Len(orders_collection')].notes = ""]_vars
====
